---------------------------- MODULE Spec2Model ----------------------------
(***************************************************************************)
(* A model of rlgym_compat's Car (src/rlgym_compat/car.py): the car that   *)
(* create_compat_car builds from the first packet and that Car.update      *)
(* advances from one PlayerInfo sample to the next.                        *)
(*                                                                         *)
(* Units.  Every duration is kept as a whole number of ticks, so a timer   *)
(* value n stands for n * TICK_TIME seconds (TICK_TIME = 1 /               *)
(* TICKS_PER_SECOND).  handbrake is kept in units of 1 / TICKS_PER_SECOND, *)
(* so HandbrakeOne stands for 1.0 and one tick of POWERSLIDE_RISE_RATE * *)
(* TICK_TIME is POWERSLIDE_RISE_RATE units.  A touch timestamp is kept in *)
(* half ticks, so that round() has something to round.  boost_amount is   *)
(* kept in hundredths.  The arithmetic is exact: the rounding error of     *)
(* the floats is not modelled.                                             *)
(*                                                                         *)
(* An Optional value is a sequence: None is << >>, a present v is <<v>>.   *)
(***************************************************************************)
EXTENDS Integers, Sequences, FiniteSets, TLC

VARIABLES
    car,           \* the Car object (a record of its slots)
    last,          \* history: the last call made on the car, its arguments
                   \* and whether it raised
    feed,          \* which fields of the telemetry feed vary in this run
    last_counted,  \* history: the touch timestamp that last raised
                   \* ball_touches since the last reset_ball_touches
    jump_run,      \* history: a jump off the ground has begun, and has_jumped
                   \* or is_jumping has held after every update since
    boost_run,     \* history: the number of calls so far when each was a
                   \* one-tick update with the boost input set, else -1
    boost_before,  \* history: boost_active_time before the last call
    contacts,      \* history: the contact records (id and cooldown both
                   \* present) the override channel has reported, the latest
                   \* first, at most two of them
    cars,          \* the Car objects of one packet's players, in the order of
                   \* their creation; flip_torque and physics hold references
    heap,          \* the arrays and physics objects the cars refer to
    cars_last,     \* history: the last call made on one of the cars
    v1,            \* the V1GameState: its tick skip, its _car_ball_touched
                   \* dictionary and the ball_touched flag it passed to each
                   \* player's data in the last update
    v1_packet,     \* the last packet the V1GameState was updated with
    legacy,        \* the legacy GameState: its per-player bookkeeping arrays
    legacy_last,   \* the last _decode_player call and the PlayerData it built
    roster,        \* the teams of the V1GameState's cars, in iteration order
    spectator_ids, \* the spectator id _recalculate_fields gave each car
    hitbox,        \* the measured box handed to detect_hitbox
    hitbox_type    \* what detect_hitbox returned for it

carVars == <<car, last, feed, last_counted, jump_run, boost_run, boost_before,
             contacts>>
fleetVars == <<cars, heap, cars_last>>
v1Vars == <<v1, v1_packet>>
legacyVars == <<legacy, legacy_last>>
rosterVars == <<roster, spectator_ids>>
hitboxVars == <<hitbox, hitbox_type>>
restVars == <<legacyVars, rosterVars, hitboxVars>>
vars == <<carVars, fleetVars, v1Vars, restVars>>

-----------------------------------------------------------------------------
(* Bounds of the model.                                                    *)

\* The largest frame number a packet carries, in the run of each feed.
MaxTickSupersonic == 6
MaxTickBoost == 15
MaxTickHandbrake == 4
MaxTickJump == 9
MaxTickWheels == 2
MaxTickTouch == 3
\* How many ticks a stale packet may lie behind the car's recorded tick.
MaxBack == 1
\* The largest forward tick delta between two packets.
MaxDelta == 2
\* The cap on ball_touches (Car.update is not taken beyond it).
MaxTouches == 2
\* The cap on jump_time, in ticks.
MaxJumpTime == 7
\* A reported touch is at most this many ticks older than its packet.
TouchWindow == 1
\* The largest frame number in the runs of the feeds of SpecDetail.
MaxTickBump == 4
MaxTickPatch == 3
MaxTickPhysics == 2
MaxTickFlip == 3
\* The largest cooldown a contact record carries, in ticks.
MaxCooldown == 2

-----------------------------------------------------------------------------
(* Program constants.                                                      *)

TICKS_PER_SECOND == 120
\* 0.1 s, in ticks
MIN_BOOST_TIME == 12
\* 1.25 s, in ticks
DOUBLEJUMP_MAX_DELAY == 150
\* per second; per tick in handbrake units
POWERSLIDE_RISE_RATE == 5
POWERSLIDE_FALL_RATE == 2
\* "it usually takes 6 ticks to leave the ground"
JumpGraceTicks == 6
BLUE_TEAM == 0
ORANGE_TEAM == 1

\* 1.0 in handbrake units
HandbrakeOne == TICKS_PER_SECOND

None == << >>
Some(v) == <<v>>
IsNone(o) == o = << >>
Get(o) == o[1]

AirStates == {"OnGround", "Jumping", "DoubleJumping", "Dodging", "InAir"}

\* int(AirState.X): the enumeration's ordinal
AirStateInt(a) ==
    CASE a = "OnGround" -> 0
      [] a = "Jumping" -> 1
      [] a = "DoubleJumping" -> 2
      [] a = "Dodging" -> 3
      [] a = "InAir" -> 4

\* latest_touch is None
NoTouch == -1

Min(a, b) == IF a < b THEN a ELSE b
Max(a, b) == IF a > b THEN a ELSE b

\* Python's round() of h / 2: to the nearest integer, a tie to the even one.
RoundHalf(h) ==
    IF h % 2 = 0 THEN h \div 2
    ELSE LET f == (h - 1) \div 2 IN IF f % 2 = 0 THEN f ELSE f + 1

-----------------------------------------------------------------------------
(* The Car's properties.                                                   *)

AllWheels(value) == <<value, value, value, value>>

\* The getter asking for all four wheels.
OnGround_AllFour(c) == Cardinality({i \in 1..4 : c.wheels_with_contact[i]}) >= 4

\* Car.on_ground (getter): sum(self.wheels_with_contact) >= 3
OnGround(c) == Cardinality({i \in 1..4 : c.wheels_with_contact[i]}) >= 3

\* Car.on_ground (setter)
SetOnGround(c, value) == [c EXCEPT !.wheels_with_contact = AllWheels(value)]

\* PhysicsObject.inverted(): the view rotated by 180 degrees about the
\* vertical axis.  A physics view is kept as its <<x, y>> position.
Inverted(ph) == <<-ph[1], -ph[2]>>

-----------------------------------------------------------------------------
(* Car.create_compat_car                                                   *)

CreateCompatCar(p, seconds_elapsed, frame_num) ==
    [ team_num            |-> IF p.team = 0 THEN BLUE_TEAM ELSE ORANGE_TEAM,
      ball_touches        |-> 0,
      bump_victim_id      |-> None,
      demo_respawn_timer  |-> 0,
      wheels_with_contact |-> AllWheels(p.air_state = "OnGround"),
      supersonic_time     |-> 0,
      boost_amount        |-> p.boost,
      boost_active_time   |-> 0,
      handbrake           |-> 0,
      has_jumped          |-> p.has_jumped,
      is_holding_jump     |-> p.in_jump,
      is_jumping          |-> FALSE,
      jump_time           |-> 0,
      has_flipped         |-> p.has_dodged,
      has_double_jumped   |-> p.has_double_jumped,
      air_time_since_jump |-> IF p.dodge_timeout = -1 THEN 0
                              ELSE DOUBLEJUMP_MAX_DELAY - p.dodge_timeout,
      flip_time           |-> p.dodge_elapsed,
      flip_torque         |-> <<-p.dodge_dir[2], p.dodge_dir[1], 0>>,
      is_autoflipping     |-> FALSE,
      autoflip_timer      |-> 0,
      autoflip_direction  |-> 0,
      physics             |-> <<0, 0>>,
      inverted_physics    |-> None,
      prev_air_state      |-> AirStateInt(p.air_state),
      game_seconds        |-> seconds_elapsed,
      cur_tick            |-> frame_num ]

-----------------------------------------------------------------------------
(* Car.reset_ball_touches                                                  *)

ResetBallTouches(c) == [c EXCEPT !.ball_touches = 0]

-----------------------------------------------------------------------------
(* Car.update, statement by statement.  c is the car as the statements     *)
(* before have left it, p the PlayerInfo sample, x the ExtraPlayerInfo.    *)

\* The clock advanced by one tick per call, whatever the tick delta.
GameSeconds_PerCall(c, time_elapsed) == c.game_seconds + 1

\* self._game_seconds += time_elapsed
GameSeconds(c, time_elapsed) == c.game_seconds + time_elapsed

\* ticks_since_touch, from the clock (ticks) and the timestamp (half ticks)
TicksSinceTouch(game_seconds, touch) == RoundHalf(2 * game_seconds - touch)

\* The counter restarted by every sample that reports no touch in the interval.
BallTouches_AutoReset(c, p, ticks_elapsed) ==
    IF p.latest_touch # NoTouch
       /\ TicksSinceTouch(c.game_seconds, p.latest_touch) < ticks_elapsed
    THEN c.ball_touches + 1
    ELSE 0

BallTouches(c, p, ticks_elapsed) ==
    IF p.latest_touch # NoTouch
       /\ TicksSinceTouch(c.game_seconds, p.latest_touch) < ticks_elapsed
    THEN c.ball_touches + 1
    ELSE c.ball_touches

DemoRespawnTimer(p) ==
    IF p.demolished_timeout = -1 THEN 0 ELSE p.demolished_timeout

\* The timer kept, not cleared, when the sample is not supersonic.
SupersonicTime_NoReset(c, p, time_elapsed) ==
    IF p.is_supersonic THEN c.supersonic_time + time_elapsed
    ELSE c.supersonic_time

SupersonicTime(c, p, time_elapsed) ==
    IF p.is_supersonic THEN c.supersonic_time + time_elapsed ELSE 0

\* The timer started at 0, not at time_elapsed.
BoostActiveTime_StartAtZero(c, p, time_elapsed) ==
    IF c.boost_active_time > 0
    THEN IF ~p.in_boost /\ c.boost_active_time >= MIN_BOOST_TIME
         THEN 0
         ELSE c.boost_active_time + time_elapsed
    ELSE IF p.in_boost THEN 0 ELSE c.boost_active_time

BoostActiveTime(c, p, time_elapsed) ==
    IF c.boost_active_time > 0
    THEN IF ~p.in_boost /\ c.boost_active_time >= MIN_BOOST_TIME
         THEN 0
         ELSE c.boost_active_time + time_elapsed
    ELSE IF p.in_boost THEN time_elapsed ELSE c.boost_active_time

\* The ramp without its clamp.
Handbrake_NoClamp(c, p, time_elapsed) ==
    IF p.in_handbrake
    THEN c.handbrake + POWERSLIDE_RISE_RATE * time_elapsed
    ELSE c.handbrake - POWERSLIDE_FALL_RATE * time_elapsed

Handbrake(c, p, time_elapsed) ==
    LET h == IF p.in_handbrake
             THEN c.handbrake + POWERSLIDE_RISE_RATE * time_elapsed
             ELSE c.handbrake - POWERSLIDE_FALL_RATE * time_elapsed
    IN  Min(HandbrakeOne, Max(0, h))

\* The flag never raised.
HasFlipped_Never(p) == FALSE

\* self.has_flipped = player_info.has_dodged
HasFlipped(p) == p.has_dodged

\* The timer counting down.
JumpTime_CountDown(c, ticks_elapsed) ==
    IF c.has_jumped \/ c.is_jumping
    THEN c.jump_time - ticks_elapsed
    ELSE c.jump_time

\* reads self.has_jumped as just written and self.is_jumping as the
\* previous update left it
JumpTime(c, ticks_elapsed) ==
    IF c.has_jumped \/ c.is_jumping
    THEN c.jump_time + ticks_elapsed
    ELSE c.jump_time

AirTimeSinceJump(p) ==
    IF p.dodge_timeout = -1 THEN 0
    ELSE DOUBLEJUMP_MAX_DELAY - p.dodge_timeout

\* jump_time in the Jumping case
JumpingJumpTime(c) ==
    IF c.prev_air_state = AirStateInt("OnGround") THEN 0 ELSE c.jump_time

\* A grace period one tick too long.
JumpingOnGround_OneTickLate(c) == c.jump_time <= JumpGraceTicks + 1

\* The grace period ending one tick early.
JumpingOnGround_Strict(c) == c.jump_time < JumpGraceTicks

\* on_ground in the Jumping case
JumpingOnGround(c) == c.jump_time <= JumpGraceTicks

\* The Dodging case leaving the car on the ground.
AirStateCase_DodgingGrounded(c, p) ==
    CASE p.air_state = "OnGround" ->
            [SetOnGround(c, TRUE) EXCEPT !.is_jumping = FALSE,
                                         !.air_time_since_jump = 0]
      [] p.air_state = "Jumping" ->
            LET c1 == [c EXCEPT !.jump_time = JumpingJumpTime(c)]
            IN  [SetOnGround(c1, JumpingOnGround(c1)) EXCEPT !.is_jumping = TRUE]
      [] p.air_state = "InAir" ->
            [SetOnGround(c, FALSE) EXCEPT !.is_jumping = FALSE]
      [] p.air_state = "Dodging" ->
            [SetOnGround(c, TRUE) EXCEPT !.is_jumping = FALSE]
      [] p.air_state = "DoubleJumping" ->
            [SetOnGround(c, FALSE) EXCEPT !.is_jumping = FALSE]

\* match player_info.air_state
AirStateCase(c, p) ==
    CASE p.air_state = "OnGround" ->
            [SetOnGround(c, TRUE) EXCEPT !.is_jumping = FALSE,
                                         !.air_time_since_jump = 0]
      [] p.air_state = "Jumping" ->
            LET c1 == [c EXCEPT !.jump_time = JumpingJumpTime(c)]
            IN  [SetOnGround(c1, JumpingOnGround(c1)) EXCEPT !.is_jumping = TRUE]
      [] p.air_state = "InAir" ->
            [SetOnGround(c, FALSE) EXCEPT !.is_jumping = FALSE]
      [] p.air_state = "Dodging" ->
            [SetOnGround(c, FALSE) EXCEPT !.is_jumping = FALSE]
      [] p.air_state = "DoubleJumping" ->
            [SetOnGround(c, FALSE) EXCEPT !.is_jumping = FALSE]

\* The cache left as it is.
InvertedPhysicsCache_Kept(c) == c.inverted_physics

\* self._inverted_physics = self.physics.inverted()
InvertedPhysicsCache(c) == Some(Inverted(c.physics))

\* Car.inverted_physics (getter): what it returns
InvertedPhysics(c) ==
    IF IsNone(c.inverted_physics) THEN Inverted(c.physics)
    ELSE Get(c.inverted_physics)

\* Car.inverted_physics (getter): the car it leaves
GetInvertedPhysics(c) ==
    IF IsNone(c.inverted_physics)
    THEN [c EXCEPT !.inverted_physics = Some(Inverted(c.physics))]
    ELSE c

\* The id kept whatever the cooldown.
BumpVictimId_NoCooldown(c, e) ==
    IF ~IsNone(e.car_contact_id) /\ ~IsNone(e.car_contact_cooldown_timer)
    THEN Some(Get(e.car_contact_id))
    ELSE c.bump_victim_id

\* bump_victim_id under the override
BumpVictimId(c, e) ==
    IF ~IsNone(e.car_contact_id) /\ ~IsNone(e.car_contact_cooldown_timer)
    THEN IF Get(e.car_contact_cooldown_timer) > 0
         THEN Some(Get(e.car_contact_id))
         ELSE None
    ELSE c.bump_victim_id

\* The override record written whole, its absent fields included.
Override_Whole(c, x) ==
    IF IsNone(x) THEN c
    ELSE LET e == Get(x) IN
         [c EXCEPT
            !.wheels_with_contact =
                IF IsNone(e.wheels_with_contact) THEN @
                ELSE Get(e.wheels_with_contact),
            !.handbrake = IF IsNone(e.handbrake) THEN @ ELSE Get(e.handbrake),
            !.ball_touches =
                IF IsNone(e.ball_touches) THEN @ ELSE Get(e.ball_touches),
            !.bump_victim_id = BumpVictimId(c, e),
            !.is_autoflipping =
                IF IsNone(e.is_autoflipping) THEN FALSE
                ELSE Get(e.is_autoflipping),
            !.autoflip_timer =
                IF IsNone(e.autoflip_timer) THEN 0 ELSE Get(e.autoflip_timer),
            !.autoflip_direction =
                IF IsNone(e.autoflip_direction) THEN 0
                ELSE Get(e.autoflip_direction)]

\* "Override with extra info if available"
Override(c, x) ==
    IF IsNone(x) THEN c
    ELSE LET e == Get(x) IN
         [c EXCEPT
            !.wheels_with_contact =
                IF IsNone(e.wheels_with_contact) THEN @
                ELSE Get(e.wheels_with_contact),
            !.handbrake = IF IsNone(e.handbrake) THEN @ ELSE Get(e.handbrake),
            !.ball_touches =
                IF IsNone(e.ball_touches) THEN @ ELSE Get(e.ball_touches),
            !.bump_victim_id = BumpVictimId(c, e),
            !.is_autoflipping =
                IF IsNone(e.is_autoflipping) THEN @ ELSE Get(e.is_autoflipping),
            !.autoflip_timer =
                IF IsNone(e.autoflip_timer) THEN @ ELSE Get(e.autoflip_timer),
            !.autoflip_direction =
                IF IsNone(e.autoflip_direction) THEN @
                ELSE Get(e.autoflip_direction)]

\* Car.update(player_info, game_tick, extra_player_info)
Update(c, p, game_tick, x) ==
    LET ticks_elapsed == game_tick - c.cur_tick
        time_elapsed  == ticks_elapsed
        c1 == [c EXCEPT !.cur_tick = game_tick,
                        !.game_seconds = GameSeconds(c, time_elapsed)]
        c2 == [c1 EXCEPT
                 !.ball_touches = BallTouches(c1, p, ticks_elapsed),
                 !.demo_respawn_timer = DemoRespawnTimer(p),
                 !.supersonic_time = SupersonicTime(c1, p, time_elapsed),
                 !.boost_amount = p.boost,
                 !.boost_active_time = BoostActiveTime(c1, p, time_elapsed),
                 !.handbrake = Handbrake(c1, p, time_elapsed),
                 !.is_holding_jump = p.in_jump,
                 !.has_jumped = p.has_jumped,
                 !.has_double_jumped = p.has_double_jumped,
                 !.has_flipped = HasFlipped(p),
                 !.flip_time = p.dodge_elapsed,
                 !.flip_torque = <<-p.dodge_dir[2], p.dodge_dir[1], @[3]>>]
        c3 == [c2 EXCEPT !.jump_time = JumpTime(c2, ticks_elapsed),
                         !.air_time_since_jump = AirTimeSinceJump(p)]
        c4 == AirStateCase(c3, p)
        c4p == [c4 EXCEPT !.physics = p.physics]
        c5 == [c4p EXCEPT !.inverted_physics = InvertedPhysicsCache(c4p)]
        c6 == Override(c5, x)
    IN  [c6 EXCEPT !.prev_air_state = AirStateInt(p.air_state)]

\* Whether Car.update raises to its caller: it has no raise statement and
\* no check of ticks_elapsed.
UpdateRaises(c, p, game_tick, x) == FALSE


-----------------------------------------------------------------------------
(* The telemetry feed: the samples, tick deltas and override records the   *)
(* caller passes.  A run varies the fields of one feed and keeps the       *)
(* others at their defaults.                                               *)

Feeds == {"supersonic", "boost", "handbrake", "jump", "wheels", "touch"}

\* The feeds that vary the override record, the dodge flag and the physics.
DetailFeeds == {"bump", "patch", "physics", "flip"}

MaxTick(f) ==
    CASE f = "supersonic" -> MaxTickSupersonic
      [] f = "boost" -> MaxTickBoost
      [] f = "handbrake" -> MaxTickHandbrake
      [] f = "jump" -> MaxTickJump
      [] f = "wheels" -> MaxTickWheels
      [] f = "touch" -> MaxTickTouch
      [] f = "bump" -> MaxTickBump
      [] f = "patch" -> MaxTickPatch
      [] f = "physics" -> MaxTickPhysics
      [] f = "flip" -> MaxTickFlip

\* The first packet: its frame number and its elapsed game time (ticks).
InitFrame == 1
InitSeconds == 3

\* match_info.seconds_elapsed of the packet with frame number tick, in ticks
PacketSeconds(tick) == tick + (InitSeconds - InitFrame)

DefaultSample ==
    [ team |-> 0, air_state |-> "OnGround", latest_touch |-> NoTouch,
      demolished_timeout |-> -1, is_supersonic |-> FALSE, boost |-> 50,
      in_boost |-> FALSE, in_handbrake |-> FALSE, in_jump |-> FALSE,
      has_jumped |-> FALSE, has_double_jumped |-> FALSE, has_dodged |-> FALSE,
      dodge_elapsed |-> 0, dodge_dir |-> <<0, 0>>, dodge_timeout |-> -1,
      physics |-> <<0, 0>> ]

\* An ExtraPlayerInfo with every field None.
EmptyExtra ==
    [ wheels_with_contact |-> None, handbrake |-> None, ball_touches |-> None,
      car_contact_id |-> None, car_contact_cooldown_timer |-> None,
      is_autoflipping |-> None, autoflip_timer |-> None,
      autoflip_direction |-> None ]

\* The touch timestamps (half ticks) a packet of frame tick may report: none
\* later than the packet itself.
TouchStamps(tick) ==
    {t \in (2 * (PacketSeconds(tick) - TouchWindow)) .. (2 * PacketSeconds(tick)) :
        t >= 0}

\* An ExtraPlayerInfo with every field of the sparse patch present.
FullExtra ==
    [ wheels_with_contact |-> Some(<<TRUE, TRUE, TRUE, FALSE>>),
      handbrake |-> Some(HandbrakeOne \div 2), ball_touches |-> Some(2),
      car_contact_id |-> None, car_contact_cooldown_timer |-> None,
      is_autoflipping |-> Some(TRUE), autoflip_timer |-> Some(48),
      autoflip_direction |-> Some(-1) ]

\* The fields of the sparse patch.
PatchFields ==
    {"wheels_with_contact", "handbrake", "ball_touches", "is_autoflipping",
     "autoflip_timer", "autoflip_direction"}

\* The record that carries the fields of F as FullExtra has them.
ExtraWith(F) ==
    [k \in DOMAIN EmptyExtra |-> IF k \in F THEN FullExtra[k] ELSE None]

\* The ids of the other cars, and the physics views, a packet may carry.
ContactIds == {5, 7}
PhysicsViews == {<<0, 0>>, <<1, 2>>, <<-3, 0>>}

Samples(f, tick) ==
    CASE f = "supersonic" ->
            {[DefaultSample EXCEPT !.is_supersonic = b] : b \in BOOLEAN}
      [] f = "boost" ->
            {[DefaultSample EXCEPT !.in_boost = b] : b \in BOOLEAN}
      [] f = "handbrake" ->
            {[DefaultSample EXCEPT !.in_handbrake = b] : b \in BOOLEAN}
      [] f = "jump" ->
            {[DefaultSample EXCEPT !.air_state = a, !.has_jumped = j] :
                a \in {"OnGround", "Jumping", "InAir"}, j \in BOOLEAN}
      [] f = "wheels" ->
            {[DefaultSample EXCEPT !.air_state = a] : a \in AirStates}
            \cup {[DefaultSample EXCEPT !.air_state = a, !.dodge_timeout = 100] :
                     a \in {"OnGround", "InAir"}}
      [] f = "touch" ->
            {[DefaultSample EXCEPT !.latest_touch = t] :
                t \in {NoTouch} \cup TouchStamps(tick)}
      [] f = "bump" -> {DefaultSample}
      [] f = "patch" ->
            {[DefaultSample EXCEPT !.air_state = a,
                                   !.in_handbrake = (a = "InAir")] :
                a \in {"OnGround", "InAir"}}
      [] f = "physics" ->
            {[DefaultSample EXCEPT !.physics = ph] : ph \in PhysicsViews}
      [] f = "flip" ->
            {[DefaultSample EXCEPT !.air_state = a, !.has_dodged = b] :
                a \in {"OnGround", "Dodging", "InAir"}, b \in BOOLEAN}

Extras(f) ==
    CASE f = "handbrake" ->
            {None} \cup {Some([EmptyExtra EXCEPT !.handbrake = Some(h)]) :
                            h \in {0, HandbrakeOne \div 2, HandbrakeOne}}
      [] f = "wheels" ->
            {None} \cup {Some([EmptyExtra EXCEPT !.wheels_with_contact = Some(w)]) :
                            w \in {AllWheels(TRUE), <<TRUE, TRUE, FALSE, FALSE>>}}
      [] f = "touch" ->
            {None} \cup {Some([EmptyExtra EXCEPT !.ball_touches = Some(n)]) :
                            n \in {1}}
      [] f = "bump" ->
            {None}
            \cup {Some([EmptyExtra EXCEPT
                           !.car_contact_id = Some(i),
                           !.car_contact_cooldown_timer = Some(t)]) :
                     i \in ContactIds, t \in 0 .. MaxCooldown}
            \cup {Some([EmptyExtra EXCEPT !.car_contact_id = Some(i)]) :
                     i \in ContactIds}
            \cup {Some([EmptyExtra EXCEPT
                           !.car_contact_cooldown_timer = Some(0)])}
      [] f = "patch" ->
            {None, Some(EmptyExtra), Some(FullExtra),
             Some([EmptyExtra EXCEPT
                     !.wheels_with_contact = Some(<<TRUE, FALSE, TRUE, FALSE>>)])}
            \cup {Some(ExtraWith({k})) : k \in PatchFields}
      [] OTHER -> {None}

Deltas(f) ==
    CASE f = "jump" -> (-MaxBack .. 1) \cup {JumpGraceTicks}
      [] f \in {"patch", "bump"} -> 1 .. MaxDelta
      [] OTHER -> -MaxBack .. MaxDelta

\* The caps that keep the counters of a run finite.
InBounds(c) ==
    /\ c.ball_touches <= MaxTouches
    /\ c.jump_time \in -MaxBack .. MaxJumpTime

\* Whether the sample raises ball_touches in this update (before any override).
Counted(c, p, game_tick) ==
    LET ticks_elapsed == game_tick - c.cur_tick
    IN  BallTouches([c EXCEPT !.game_seconds = @ + ticks_elapsed], p, ticks_elapsed)
            > c.ball_touches

-----------------------------------------------------------------------------
(* Several cars.  A Car holds its flip_torque array and its PhysicsObject  *)
(* by reference, and Car.update writes both in place; a store is the cars  *)
(* with the heap of the objects they refer to.                             *)

\* The greatest frame number of the packets the cars are updated with.
MaxTickFleet == 5
\* The number of players in the packet.
NumCars == 2

\* One array for all the cars.
FlipTorqueRef_Shared(i) == 1

\* np.array([...]) in create_compat_car: a new array for the i-th car
FlipTorqueRef(i) == 2 * i - 1

\* PhysicsObject.create_compat_physics_object(): a new object for the i-th car
PhysicsRef(i) == 2 * i

EmptyStore == [cars |-> << >>, heap |-> [r \in 1 .. 2 * NumCars |-> << >>]]

\* The i-th car of the store, with its array and its physics object read.
Load(S, i) ==
    [S.cars[i] EXCEPT !.flip_torque = S.heap[S.cars[i].flip_torque],
                      !.physics = S.heap[S.cars[i].physics]]

\* Car.create_compat_car(packet, player_index, ...) for the next player
CreateInto(S, p) ==
    LET i == Len(S.cars) + 1
        c == CreateCompatCar(p, InitSeconds, InitFrame)
    IN  [cars |-> Append(S.cars, [c EXCEPT !.flip_torque = FlipTorqueRef(i),
                                           !.physics = PhysicsRef(i)]),
         heap |-> [[S.heap EXCEPT ![FlipTorqueRef(i)] = c.flip_torque]
                       EXCEPT ![PhysicsRef(i)] = c.physics]]

\* The cars of the packet's first n players, the teams alternating.
RECURSIVE CreateAll(_, _)
CreateAll(ps, n) ==
    IF n = 0 THEN EmptyStore
    ELSE CreateInto(CreateAll(ps, n - 1), [ps[n] EXCEPT !.team = (n + 1) % 2])

\* cars[i].update(player_info, game_tick): the array and the physics object
\* are written where they are, the other slots are assigned
UpdateIn(S, i, p, game_tick) ==
    LET c == Update(Load(S, i), p, game_tick, None)
        torque == S.cars[i].flip_torque
        physics == S.cars[i].physics
    IN  [cars |-> [S.cars EXCEPT ![i] = [c EXCEPT !.flip_torque = torque,
                                                  !.physics = physics]],
         heap |-> [[S.heap EXCEPT ![torque] = c.flip_torque]
                       EXCEPT ![physics] = c.physics]]

\* The samples of the cars' feed: the dodge direction and the physics vary.
FleetSamples ==
    {DefaultSample,
     [DefaultSample EXCEPT !.dodge_dir = <<1, 0>>, !.physics = <<1, 2>>]}

\* The updates the feed may make of the i-th car: sample and tick index.
FleetInputs(S, i) ==
    {<<p, t>> \in FleetSamples \X (0 .. MaxTickFleet) :
        t - S.cars[i].cur_tick \in 1 .. MaxDelta}

Store == [cars |-> cars, heap |-> heap]

\* No cars: the runs of the single car.
NoFleet ==
    /\ cars = << >>
    /\ heap = EmptyStore.heap
    /\ cars_last = [op |-> "none", id |-> 0]

-----------------------------------------------------------------------------
(* V1GameState (src/rlgym_compat/v1_game_state.py): the ball_touched flag  *)
(* of each player.  A packet is its elapsed game time (ticks) and each     *)
(* player's latest touch timestamp (half ticks, NoTouch for None).         *)

\* The greatest elapsed game time of a packet, in ticks.
MaxSecondsV1 == 4
\* The greatest tick_skip the V1GameState is constructed with.
MaxTickSkip == 2

\* player_id of the packet's players
V1Players == {0, 1}

\* V1GameState.__init__(..., tick_skip, ...)
V1Create(tick_skip) ==
    [tick_skip |-> tick_skip,
     last_touch |-> -1,
     car_ball_touched |-> << >>,
     ball_touched |-> << >>]

\* self._car_ball_touched[player_id] after the loop body for one player
CarBallTouched(g, player_id, touch, seconds_elapsed) ==
    LET known == IF player_id \in DOMAIN g.car_ball_touched
                 THEN g.car_ball_touched[player_id] ELSE FALSE
    IN  IF touch # NoTouch
           /\ TicksSinceTouch(seconds_elapsed, touch) < g.tick_skip
        THEN TRUE
        ELSE known

\* key=lambda item: -1 if item[1].latest_touch is None
\*                  else item[1].latest_touch.game_seconds
TouchKey(touch) == IF touch = NoTouch THEN -1 ELSE touch

\* max(...) keeps the item it holds unless a later one has a greater key
KeyReplaces_OnTie(key, held) == key >= held
KeyReplaces(key, held) == key > held

\* max(enumerate(packet.players), key=...) over the first n players: the index
RECURSIVE LatestTouchPlayerIdx(_, _)
LatestTouchPlayerIdx(touch, n) ==
    IF n = 1 THEN 0
    ELSE LET held == LatestTouchPlayerIdx(touch, n - 1)
         IN  IF KeyReplaces(TouchKey(touch[n - 1]), TouchKey(touch[held]))
             THEN n - 1
             ELSE held

\* self.last_touch = -1 if latest_touch_player_info.latest_touch is None
\*                   else latest_touch_player_idx
LastTouch(touch) ==
    LET idx == LatestTouchPlayerIdx(touch, Cardinality(V1Players))
    IN  IF touch[idx] = NoTouch THEN -1 ELSE idx

\* V1GameState.update(packet): the dictionary, and the flag that
\* _recalculate_fields passes to each player's update_from_v2
V1Update(g, packet) ==
    LET touched == [q \in V1Players |->
                      CarBallTouched(g, q, packet.touch[q], packet.seconds)]
    IN  [g EXCEPT !.last_touch = LastTouch(packet.touch),
                  !.car_ball_touched = touched, !.ball_touched = touched]

\* The packets that may follow a packet: later by 1 .. MaxDelta ticks, each
\* player's latest touch the one already reported or one made since.
V1Packets(packet) ==
    {[op |-> "update", seconds |-> s, touch |-> t] :
        s \in {packet.seconds + d : d \in 1 .. MaxDelta},
        t \in [V1Players -> {NoTouch} \cup {2 * k : k \in 0 .. MaxSecondsV1}]}

V1PacketFollows(packet, next) ==
    /\ next.seconds <= MaxSecondsV1
    /\ \A q \in V1Players :
          \/ next.touch[q] = packet.touch[q]
          \/ /\ next.touch[q] > 2 * packet.seconds
             /\ next.touch[q] <= 2 * next.seconds

\* No V1GameState: the runs of the cars.
NoV1 ==
    /\ v1 = V1Create(0)
    /\ v1_packet = [op |-> "none", seconds |-> 0,
                    touch |-> [q \in V1Players |-> NoTouch]]

-----------------------------------------------------------------------------
(* The legacy GameState (src/rlgym_compat/game_state.py): the bookkeeping  *)
(* of _decode_player.  Its arrays are kept for the players of the packet.  *)

\* The caps on _on_ground_ticks and on the ticks _air_time_since_jump counts.
MaxGroundTicks == 7
MaxAirTicks == 2

\* self.has_jumped = [False] * 10
HasJumpedSlots == 10
\* self._air_time_since_jump[index] = 150 ; ... < 150
DodgeAirTime == 150
\* self._on_ground_ticks[index] <= 6
LegacyGraceTicks == 6

\* index of the packet's players
LegacyPlayers == {0, 1}

\* GameState.__init__
LegacyCreate ==
    [on_ground_ticks |-> [i \in LegacyPlayers |-> 0],
     air_time_since_jump |-> [i \in LegacyPlayers |-> 0],
     has_jumped |-> [k \in 1 .. HasJumpedSlots |-> FALSE]]

\* bool(l) of a Python list: whether it has an element
ListTruthy(l) == Len(l) > 0

\* _decode_player: the bookkeeping it leaves (index counts from 0)
DecodePlayerState(g, index, air_state, ticks_elapsed) ==
    IF air_state = "OnGround"
    THEN [g EXCEPT !.on_ground_ticks[index] = 0,
                   !.air_time_since_jump[index] = 0,
                   !.has_jumped[index + 1] = FALSE]
    ELSE [g EXCEPT
            !.on_ground_ticks[index] = @ + ticks_elapsed,
            !.air_time_since_jump[index] =
                CASE air_state = "Jumping" -> 0
                  [] air_state \in {"DoubleJumping", "Dodging"} -> DodgeAirTime
                  [] OTHER -> @ + ticks_elapsed,
            !.has_jumped[index + 1] =
                IF air_state = "Jumping" THEN TRUE ELSE @]

\* player_data.has_jump = not self.has_jumped
HasJump(g, index) == ~ListTruthy(g.has_jumped)

\* _decode_player: the PlayerData it returns, from the bookkeeping it left
DecodePlayerData(g, index, air_state) ==
    [car_id |-> index,
     on_ground |-> (air_state = "OnGround"
                       \/ g.on_ground_ticks[index] <= LegacyGraceTicks),
     ball_touched |-> FALSE,
     has_jump |-> HasJump(g, index),
     has_flip |-> g.air_time_since_jump[index] < DodgeAirTime]

LegacyInBounds(g) ==
    \A i \in LegacyPlayers :
       /\ g.on_ground_ticks[i] <= MaxGroundTicks
       /\ \/ g.air_time_since_jump[i] <= MaxAirTicks
          \/ g.air_time_since_jump[i] \in
                DodgeAirTime .. (DodgeAirTime + MaxAirTicks)

NoPlayerData ==
    [car_id |-> -1, on_ground |-> FALSE, ball_touched |-> FALSE,
     has_jump |-> FALSE, has_flip |-> FALSE]

\* No legacy GameState.
NoLegacy ==
    /\ legacy = LegacyCreate
    /\ legacy_last = [op |-> "none", index |-> 0, air_state |-> "OnGround",
                      player_data |-> NoPlayerData]

-----------------------------------------------------------------------------
(* V1GameState._recalculate_fields: the spectator ids.  The cars are the   *)
(* sequence of their teams, in the iteration order of _game_state.cars.    *)

\* The most cars of a match, and the most a packet adds.
MaxRoster == 6
MaxJoin == 2

Teams == {BLUE_TEAM, ORANGE_TEAM}

\* how many of the first n cars are of the team
RECURSIVE TeamCount(_, _, _)
TeamCount(teams, team, n) ==
    IF n = 0 THEN 0
    ELSE TeamCount(teams, team, n - 1)
            + (IF teams[n] = team THEN 1 ELSE 0)

\* orange_spectator_id = max(5, blue_spectator_id)
OrangeStart_Five(blue_spectator_id) == 5
OrangeStart(blue_spectator_id) == Max(5, blue_spectator_id)

\* player_id_spectator_id_map, by the car's place in the iteration order
SpectatorIdMap(teams) ==
    LET blue_spectator_id == 1 + TeamCount(teams, BLUE_TEAM, Len(teams))
    IN  [k \in 1 .. Len(teams) |->
            IF teams[k] = BLUE_TEAM
            THEN 1 + TeamCount(teams, BLUE_TEAM, k - 1)
            ELSE OrangeStart(blue_spectator_id)
                    + TeamCount(teams, ORANGE_TEAM, k - 1)]

\* the teams of the cars a packet adds
Joiners ==
    UNION {[1 .. n -> Teams] : n \in 0 .. MaxJoin}

\* No V1GameState roster.
NoRoster ==
    /\ roster = << >>
    /\ spectator_ids = << >>

-----------------------------------------------------------------------------
(* Car.detect_hitbox.  Lengths are in whole units; the reference shapes    *)
(* are the code's, rounded.                                                *)

\* The tolerance of compare_hitbox_shape, and how far from a reference
\* shape the measured boxes go on each dimension.
HitboxTolerance == 1
HitboxMargin == 2

\* the reference shapes, in the order detect_hitbox tries them
HitboxReferences ==
    << [category |-> "OCTANE",   length |-> 118, width |-> 84, height |-> 36],
       [category |-> "DOMINUS",  length |-> 128, width |-> 83, height |-> 31],
       [category |-> "PLANK",    length |-> 129, width |-> 85, height |-> 29],
       [category |-> "BREAKOUT", length |-> 131, width |-> 81, height |-> 30],
       [category |-> "HYBRID",   length |-> 127, width |-> 82, height |-> 34],
       [category |-> "MERC",     length |-> 121, width |-> 77, height |-> 42] >>

Abs(x) == IF x < 0 THEN -x ELSE x

\* compare_hitbox_shape(shape, length, width, height)
CompareHitboxShape(shape, ref) ==
    /\ Abs(shape.length - ref.length) <= HitboxTolerance
    /\ Abs(shape.width - ref.width) <= HitboxTolerance
    /\ Abs(shape.height - ref.height) <= HitboxTolerance

\* Car.detect_hitbox(hitbox_shape, hitbox_offset)
DetectHitbox_PlankFirst(hitbox_shape, hitbox_offset) ==
    IF CompareHitboxShape(hitbox_shape, HitboxReferences[1]) THEN "OCTANE"
    ELSE IF CompareHitboxShape(hitbox_shape, HitboxReferences[3]) THEN "PLANK"
    ELSE IF CompareHitboxShape(hitbox_shape, HitboxReferences[2]) THEN "DOMINUS"
    ELSE IF CompareHitboxShape(hitbox_shape, HitboxReferences[4]) THEN "BREAKOUT"
    ELSE IF CompareHitboxShape(hitbox_shape, HitboxReferences[5]) THEN "HYBRID"
    ELSE IF CompareHitboxShape(hitbox_shape, HitboxReferences[6]) THEN "MERC"
    ELSE "OCTANE"
DetectHitbox(hitbox_shape, hitbox_offset) ==
    IF CompareHitboxShape(hitbox_shape, HitboxReferences[1]) THEN "OCTANE"
    ELSE IF CompareHitboxShape(hitbox_shape, HitboxReferences[2]) THEN "DOMINUS"
    ELSE IF CompareHitboxShape(hitbox_shape, HitboxReferences[3]) THEN "PLANK"
    ELSE IF CompareHitboxShape(hitbox_shape, HitboxReferences[4]) THEN "BREAKOUT"
    ELSE IF CompareHitboxShape(hitbox_shape, HitboxReferences[5]) THEN "HYBRID"
    ELSE IF CompareHitboxShape(hitbox_shape, HitboxReferences[6]) THEN "MERC"
    ELSE "OCTANE"

\* the measured boxes: each reference shape, off by up to the margin
HitboxShapes ==
    {[length |-> HitboxReferences[k].length + dl,
      width |-> HitboxReferences[k].width + dw,
      height |-> HitboxReferences[k].height + dh] :
        k \in DOMAIN HitboxReferences,
        dl \in -HitboxMargin .. HitboxMargin,
        dw \in -HitboxMargin .. HitboxMargin,
        dh \in -HitboxMargin .. HitboxMargin}

\* the x of the hitbox offsets a packet reports
HitboxOffsets == {9, 14}

\* No hitbox measured.
NoHitbox ==
    /\ hitbox = [shape |-> [length |-> 0, width |-> 0, height |-> 0],
                 offset |-> 0]
    /\ hitbox_type = "UNSET"

NoRest == NoLegacy /\ NoRoster /\ NoHitbox

-----------------------------------------------------------------------------
(* The state machine.                                                      *)

\* The first packet's samples: no dodge countdown is running yet.
InitSamples(f) == {p \in Samples(f, InitFrame) : p.dodge_timeout = -1}

\* Whether the update begins a jump off the ground.
JumpBegins(c, p) ==
    c.prev_air_state = AirStateInt("OnGround") /\ p.air_state = "Jumping"

\* The contact record of an override, if it carries one whole.
HasContact(x) ==
    /\ ~IsNone(x)
    /\ ~IsNone(Get(x).car_contact_id)
    /\ ~IsNone(Get(x).car_contact_cooldown_timer)

ContactOf(x) ==
    [id |-> Get(Get(x).car_contact_id),
     cooldown |-> Get(Get(x).car_contact_cooldown_timer)]

\* The car created from the first packet of one of the feeds of F.
InitWith(F) ==
    /\ feed \in F
    /\ \E p \in InitSamples(feed) :
          /\ car = CreateCompatCar(p, InitSeconds, InitFrame)
          /\ last = [op |-> "create", p |-> p, game_tick |-> InitFrame,
                     x |-> None, ticks_elapsed |-> 0, raised |-> FALSE]
    /\ last_counted = NoTouch
    /\ jump_run = FALSE
    /\ boost_run = 0
    /\ boost_before = 0
    /\ contacts = << >>
    /\ NoFleet
    /\ NoV1
    /\ NoRest

Init == InitWith(Feeds)

\* car.update(player_info, game_tick, extra_player_info), for the tick
\* deltas of D
UpdateWith(D) ==
    \E d \in D :
       \E p \in Samples(feed, car.cur_tick + d), x \in Extras(feed) :
          LET game_tick == car.cur_tick + d
              c == Update(car, p, game_tick, x)
          IN  /\ game_tick \in 0 .. MaxTick(feed)
              /\ InBounds(c)
              /\ car' = c
              /\ last' = [op |-> "update", p |-> p, game_tick |-> game_tick,
                          x |-> x, ticks_elapsed |-> d,
                          raised |-> UpdateRaises(car, p, game_tick, x)]
              /\ last_counted' = IF Counted(car, p, game_tick)
                                 THEN p.latest_touch ELSE last_counted
              /\ jump_run' = IF JumpBegins(car, p) THEN TRUE
                             ELSE jump_run /\ (c.has_jumped \/ c.is_jumping)
              /\ boost_run' = IF boost_run >= 0 /\ d = 1 /\ p.in_boost
                              THEN boost_run + 1 ELSE -1
              /\ boost_before' = car.boost_active_time
              /\ contacts' = IF HasContact(x)
                              THEN SubSeq(<<ContactOf(x)>> \o contacts, 1,
                                          Min(2, Len(contacts) + 1))
                              ELSE contacts
              /\ UNCHANGED <<feed, fleetVars, v1Vars, restVars>>

\* car.update with the packet after the recorded one
DoUpdate == UpdateWith({d \in Deltas(feed) : d > 0})

\* car.update with a duplicate or an out-of-order packet
DoStaleUpdate == UpdateWith({d \in Deltas(feed) : d <= 0})

\* car.reset_ball_touches()
DoReset ==
    /\ car' = ResetBallTouches(car)
    /\ last' = [op |-> "reset", p |-> DefaultSample, game_tick |-> car.cur_tick,
                x |-> None, ticks_elapsed |-> 0, raised |-> FALSE]
    /\ last_counted' = NoTouch
    /\ boost_before' = car.boost_active_time
    /\ UNCHANGED <<feed, jump_run, boost_run, contacts, fleetVars, v1Vars,
                 restVars>>

Next == DoUpdate \/ DoStaleUpdate \/ DoReset

Spec == Init /\ [][Next]_vars

\* The name of the call car.on_ground = value
SetterOp(value) == IF value THEN "on_ground = True" ELSE "on_ground = False"

\* car.on_ground = value
DoSetOnGround ==
    \E value \in BOOLEAN :
       /\ car' = SetOnGround(car, value)
       /\ last' = [op |-> SetterOp(value), p |-> DefaultSample,
                   game_tick |-> car.cur_tick, x |-> None, ticks_elapsed |-> 0,
                   raised |-> FALSE]
       /\ boost_before' = car.boost_active_time
       /\ UNCHANGED <<feed, last_counted, jump_run, boost_run, contacts,
                    fleetVars, v1Vars, restVars>>

\* car.inverted_physics
DoGetInvertedPhysics ==
    /\ car' = GetInvertedPhysics(car)
    /\ last' = [op |-> "inverted_physics", p |-> DefaultSample,
                game_tick |-> car.cur_tick, x |-> None, ticks_elapsed |-> 0,
                raised |-> FALSE]
    /\ boost_before' = car.boost_active_time
    /\ UNCHANGED <<feed, last_counted, jump_run, boost_run, contacts,
                    fleetVars, v1Vars, restVars>>

NextDetail ==
    DoUpdate \/ DoStaleUpdate \/ DoReset \/ DoSetOnGround
        \/ DoGetInvertedPhysics

\* The runs of the feeds of DetailFeeds, with the car's property accessors.
SpecDetail == InitWith(DetailFeeds) /\ [][NextDetail]_vars

\* The single car left as it was created.
IdleCar ==
    /\ feed = "bump"
    /\ car = CreateCompatCar(DefaultSample, InitSeconds, InitFrame)
    /\ last = [op |-> "create", p |-> DefaultSample, game_tick |-> InitFrame,
               x |-> None, ticks_elapsed |-> 0, raised |-> FALSE]
    /\ last_counted = NoTouch
    /\ jump_run = FALSE
    /\ boost_run = 0
    /\ boost_before = 0
    /\ contacts = << >>

\* The cars of the first packet's players, created one after the other.
InitFleet ==
    /\ IdleCar
    /\ \E ps \in [1 .. NumCars -> FleetSamples] :
          LET S == CreateAll(ps, NumCars)
          IN  cars = S.cars /\ heap = S.heap
    /\ cars_last = [op |-> "create", id |-> 0]
    /\ NoV1
    /\ NoRest

\* cars[i].update(player_info, game_tick)
DoFleetUpdate ==
    \E i \in 1 .. NumCars :
       \E in \in FleetInputs(Store, i) :
          LET S == UpdateIn(Store, i, in[1], in[2])
          IN  /\ cars' = S.cars
              /\ heap' = S.heap
              /\ cars_last' = [op |-> "update", id |-> i]
              /\ UNCHANGED <<carVars, v1Vars, restVars>>

NextFleet == DoFleetUpdate

\* V1GameState(field_info, tick_skip = ...), before its first packet
InitV1 ==
    /\ IdleCar
    /\ NoFleet
    /\ NoRest
    /\ \E tick_skip \in 1 .. MaxTickSkip : v1 = V1Create(tick_skip)
    /\ v1_packet = [op |-> "create", seconds |-> 0,
                    touch |-> [q \in V1Players |-> NoTouch]]

\* v1.update(packet)
DoV1Update ==
    \E packet \in V1Packets(v1_packet) :
       /\ V1PacketFollows(v1_packet, packet)
       /\ v1' = V1Update(v1, packet)
       /\ v1_packet' = packet
       /\ UNCHANGED <<carVars, fleetVars, restVars>>

NextV1 == DoV1Update

\* GameState(game_info), before its first packet
InitLegacy ==
    /\ IdleCar
    /\ NoFleet
    /\ NoV1
    /\ NoRoster
    /\ NoHitbox
    /\ legacy = LegacyCreate
    /\ legacy_last = [op |-> "create", index |-> 0, air_state |-> "OnGround",
                      player_data |-> NoPlayerData]

\* self._decode_player(player_info, index, ticks_elapsed)
DoDecodePlayer ==
    \E index \in LegacyPlayers, air_state \in AirStates,
       ticks_elapsed \in 1 .. MaxDelta :
       LET g == DecodePlayerState(legacy, index, air_state, ticks_elapsed)
       IN  /\ LegacyInBounds(g)
           /\ legacy' = g
           /\ legacy_last' = [op |-> "decode_player", index |-> index,
                              air_state |-> air_state,
                              player_data |->
                                 DecodePlayerData(g, index, air_state)]
           /\ UNCHANGED <<carVars, fleetVars, v1Vars, rosterVars, hitboxVars>>

NextLegacy == DoDecodePlayer

SpecLegacy == InitLegacy /\ [][NextLegacy]_vars

\* V1GameState(...), before its first packet
InitRoster ==
    /\ IdleCar
    /\ NoFleet
    /\ NoV1
    /\ NoLegacy
    /\ NoHitbox
    /\ NoRoster

\* v1.update(packet): the packet's new cars join, then _recalculate_fields
DoRecalculateFields ==
    \E joiners \in Joiners :
       /\ Len(roster) + Len(joiners) <= MaxRoster
       /\ roster' = roster \o joiners
       /\ spectator_ids' = SpectatorIdMap(roster \o joiners)
       /\ UNCHANGED <<carVars, fleetVars, v1Vars, legacyVars, hitboxVars>>

NextRoster == DoRecalculateFields

SpecRoster == InitRoster /\ [][NextRoster]_vars

\* A packet's player, measured, before its car is made
InitHitbox ==
    /\ IdleCar
    /\ NoFleet
    /\ NoV1
    /\ NoLegacy
    /\ NoRoster
    /\ \E shape \in HitboxShapes, offset \in HitboxOffsets :
          hitbox = [shape |-> shape, offset |-> offset]
    /\ hitbox_type = "UNSET"

\* Car.detect_hitbox(player_info.hitbox, player_info.hitbox_offset)
DoDetectHitbox ==
    /\ hitbox_type = "UNSET"
    /\ hitbox_type' = DetectHitbox(hitbox.shape, hitbox.offset)
    /\ UNCHANGED <<hitbox, carVars, fleetVars, v1Vars, legacyVars, rosterVars>>

NextHitbox == DoDetectHitbox

SpecHitbox == InitHitbox /\ [][NextHitbox]_vars

SpecV1 == InitV1 /\ [][NextV1]_vars

SpecFleet == InitFleet /\ [][NextFleet]_vars


-----------------------------------------------------------------------------
(* What the claims speak of.                                               *)

IsUpdate == last.op = "update"

\* The override record of the last call carries the field.
WheelsOverridden == ~IsNone(last.x) /\ ~IsNone(Get(last.x).wheels_with_contact)
TouchesOverridden == ~IsNone(last.x) /\ ~IsNone(Get(last.x).ball_touches)
HandbrakeOverridden == ~IsNone(last.x) /\ ~IsNone(Get(last.x).handbrake)

-----------------------------------------------------------------------------
(* C1.  An update whose game_tick is not greater than the recorded tick    *)
(* (ticks_elapsed <= 0) is reported to the caller as an error.             *)
(* Car.update reports nothing: the step is applied.                        *)

\* C1: every update with ticks_elapsed <= 0 raised.
C1_StaleTickReported == (IsUpdate /\ last.ticks_elapsed <= 0) => last.raised

-----------------------------------------------------------------------------
(* C2.  on_ground true implies is_jumping false and air_time_since_jump 0. *)

\* C2 as stated: in every reachable state, on_ground implies that is_jumping
\* is false and air_time_since_jump is 0.
C2_OnGroundMeansNotJumping ==
    OnGround(car) => (~car.is_jumping /\ car.air_time_since_jump = 0)

\* C2 as amended: after an update that applied no wheels_with_contact
\* override, on_ground holds only if the sample is tagged OnGround, and then
\* is_jumping is false and air_time_since_jump is 0, or the sample is tagged
\* Jumping with jump_time within the 6-tick grace period, and then is_jumping
\* is true.
C2_OnGroundAfterUpdate ==
    (IsUpdate /\ ~WheelsOverridden /\ OnGround(car)) =>
        \/ /\ last.p.air_state = "OnGround"
           /\ ~car.is_jumping
           /\ car.air_time_since_jump = 0
        \/ /\ last.p.air_state = "Jumping"
           /\ car.is_jumping
           /\ car.jump_time <= JumpGraceTicks

\* A Jumping sample at the end of the grace period: on the ground, jumping.
C2_Witness ==
    /\ IsUpdate /\ ~WheelsOverridden /\ OnGround(car)
    /\ last.p.air_state = "Jumping"
    /\ car.is_jumping
    /\ car.jump_time = JumpGraceTicks


-----------------------------------------------------------------------------
(* C3.  ball_touches rises by exactly 1 on the first update whose sample   *)
(* reports a touch timestamp inside the elapsed interval, and does not     *)
(* rise again on a later update that reports the same timestamp.           *)

\* The sample of the last call reports a touch inside the elapsed interval.
TouchInInterval ==
    /\ last.p.latest_touch # NoTouch
    /\ TicksSinceTouch(car.game_seconds, last.p.latest_touch) < last.ticks_elapsed

\* C3: an update without a ball_touches override leaves ball_touches alone
\* when its sample repeats the timestamp already counted (since the last
\* reset_ball_touches), and otherwise adds exactly 1 when the timestamp lies
\* inside the elapsed interval.
C3_TouchCountedOnce ==
    [][ (IsUpdate' /\ ~TouchesOverridden') =>
          IF last'.p.latest_touch # NoTouch /\ last'.p.latest_touch = last_counted
          THEN car'.ball_touches = car.ball_touches
          ELSE TouchInInterval' => car'.ball_touches = car.ball_touches + 1
      ]_vars

\* The same run without duplicate or out-of-order packets.
SpecInOrder == Init /\ [][DoUpdate \/ DoReset]_vars


-----------------------------------------------------------------------------
(* C4.  Car.update never resets the touch counter: without a ball_touches  *)
(* override it never lowers ball_touches; reset_ball_touches sets it to 0  *)
(* and changes no other field.                                             *)

\* C4: an update without a ball_touches override does not lower
\* ball_touches, and a reset_ball_touches leaves the car as it was but for
\* ball_touches, which is 0.
C4_OnlyResetClearsTouches ==
    [][ /\ (IsUpdate' /\ ~TouchesOverridden') =>
              car'.ball_touches >= car.ball_touches
        /\ (last'.op = "reset") =>
              /\ car'.ball_touches = 0
              /\ \A f \in DOMAIN car \ {"ball_touches"} : car'[f] = car[f]
      ]_vars

\* An update whose sample reports no touch has left a counter of 2 standing.
C4_Witness ==
    /\ IsUpdate /\ IsNone(last.x)
    /\ last.p.latest_touch = NoTouch
    /\ car.ball_touches >= 2

-----------------------------------------------------------------------------
(* C5.  After the air-state goes OnGround then Jumping at tick T,          *)
(* jump_time is 0, and each later update leaves it at least as large as    *)
(* before for as long as has_jumped or is_jumping remains true.            *)

\* C5: the update that begins a jump off the ground leaves jump_time 0, and
\* any other update within a jump run (has_jumped or is_jumping true since
\* the jump began, and still true after the update) does not lower it.
C5_JumpTimeMonotone ==
    [][ IsUpdate' =>
          IF car.prev_air_state = AirStateInt("OnGround")
             /\ last'.p.air_state = "Jumping"
          THEN car'.jump_time = 0
          ELSE (jump_run /\ jump_run') => car'.jump_time >= car.jump_time
      ]_vars

-----------------------------------------------------------------------------
(* C6.  While the sample is tagged Jumping, on_ground after the update is  *)
(* true exactly when jump_time is at most the 6-tick grace period; for     *)
(* OnGround, Jumping, InAir at ticks 0, 1, 7, jump_time is 0 after tick 1  *)
(* and 6 ticks after tick 7.                                               *)

\* C6: after an update on a Jumping sample (no wheels override) on_ground
\* holds iff jump_time <= 6 ticks; the update that takes the car from
\* OnGround to Jumping leaves jump_time 0; and from a jump that has just
\* begun (Jumping, jump_time 0) an InAir sample 6 ticks later leaves
\* jump_time at 6 ticks and the car off the ground.
C6_JumpGrace ==
    [][ IsUpdate' =>
          /\ (last'.p.air_state = "Jumping" /\ ~WheelsOverridden') =>
                (OnGround(car') <=> car'.jump_time <= JumpGraceTicks)
          /\ (car.prev_air_state = AirStateInt("OnGround")
                /\ last'.p.air_state = "Jumping") => car'.jump_time = 0
          /\ (car.prev_air_state = AirStateInt("Jumping") /\ car.is_jumping
                /\ car.jump_time = 0 /\ last'.p.air_state = "InAir"
                /\ last'.ticks_elapsed = JumpGraceTicks /\ ~WheelsOverridden') =>
                (car'.jump_time = JumpGraceTicks /\ ~OnGround(car'))
      ]_vars

\* The scenario's last state: the jump began at the second packet, and the
\* InAir sample 6 ticks later finds jump_time at 6 ticks.
C6_Witness ==
    /\ IsUpdate /\ last.p.air_state = "InAir"
    /\ last.ticks_elapsed = JumpGraceTicks
    /\ last.game_tick = InitFrame + 1 + JumpGraceTicks
    /\ car.jump_time = JumpGraceTicks
    /\ ~OnGround(car)

-----------------------------------------------------------------------------
(* C7.  supersonic_time strictly increases, by time_elapsed, on every      *)
(* update whose sample reports supersonic, and is 0 after every update     *)
(* whose sample does not.                                                  *)

\* C7: an update on a supersonic sample leaves supersonic_time larger than
\* before, by the elapsed time; an update on any other sample leaves it 0.
C7_SupersonicTimer ==
    [][ IsUpdate' =>
          IF last'.p.is_supersonic
          THEN /\ car'.supersonic_time > car.supersonic_time
               /\ car'.supersonic_time = car.supersonic_time + last'.ticks_elapsed
          ELSE car'.supersonic_time = 0
      ]_vars


-----------------------------------------------------------------------------
(* C8.  After every update a duration timer whose defining condition is    *)
(* false in the sample is exactly 0: supersonic_time when the sample is    *)
(* not supersonic, boost_active_time when the boost input is not           *)
(* requested, air_time_since_jump when the car is on the ground.           *)

\* C8 as stated: after an update, supersonic_time is 0 if the sample is not
\* supersonic, boost_active_time is 0 if the boost input is not set, and
\* air_time_since_jump is 0 if the sample is tagged OnGround.
C8_TimersZeroWhenConditionFalse ==
    IsUpdate =>
        /\ ~last.p.is_supersonic => car.supersonic_time = 0
        /\ ~last.p.in_boost => car.boost_active_time = 0
        /\ last.p.air_state = "OnGround" => car.air_time_since_jump = 0

\* C8 as amended: the same, but boost_active_time is 0 after an update
\* without boost input only if, before the update, the timer stood at 0 or
\* had reached MIN_BOOST_TIME.
C8_TimersZeroAmended ==
    IsUpdate =>
        /\ ~last.p.is_supersonic => car.supersonic_time = 0
        /\ (~last.p.in_boost
              /\ (boost_before = 0 \/ boost_before >= MIN_BOOST_TIME)) =>
                 car.boost_active_time = 0
        /\ last.p.air_state = "OnGround" => car.air_time_since_jump = 0

\* The boost input released with the timer at MIN_BOOST_TIME or beyond.
C8_Witness ==
    /\ IsUpdate /\ ~last.p.in_boost
    /\ boost_before >= MIN_BOOST_TIME
    /\ car.boost_active_time = 0

-----------------------------------------------------------------------------
(* C9.  A running boost_active_time (> 0) is reset to 0 only if the boost  *)
(* input is false and the timer has reached MIN_BOOST_TIME, otherwise it   *)
(* grows by time_elapsed; from 0 it becomes time_elapsed iff the boost     *)
(* input is true.  So 8 one-tick updates with the boost input set,         *)
(* starting from 0, leave it at 8 ticks.                                   *)

\* C9: after an update, a timer that was running is 0 if the input is off
\* and it had reached MIN_BOOST_TIME, and else is larger by the elapsed
\* time; a timer that stood at 0 is the elapsed time if the input is on and
\* else still 0; and after 8 one-tick updates with the input on, from the
\* car's creation, it is 8 ticks.
C9_BoostTimer ==
    IsUpdate =>
        /\ boost_before > 0 =>
              car.boost_active_time =
                 IF ~last.p.in_boost /\ boost_before >= MIN_BOOST_TIME
                 THEN 0
                 ELSE boost_before + last.ticks_elapsed
        /\ boost_before = 0 =>
              car.boost_active_time =
                 IF last.p.in_boost THEN last.ticks_elapsed ELSE 0
        /\ boost_run = 8 => car.boost_active_time = 8

\* Eight one-tick updates with the boost input set, from the created car.
C9_Witness == IsUpdate /\ boost_run = 8 /\ car.boost_active_time = 8

-----------------------------------------------------------------------------
(* C10.  handbrake stays within [0, 1] for any handbrake input flags and   *)
(* any tick deltas.                                                        *)

-----------------------------------------------------------------------------
(* C11.  A contact id is kept as bump_victim_id only while the cooldown    *)
(* reported with it is greater than zero; from the update whose record     *)
(* reports the cooldown at zero onward, bump_victim_id is None.            *)

\* C11: in every reachable state bump_victim_id is the id of the latest
\* contact record reported (id and cooldown both present) if that record's
\* cooldown is greater than zero, and is None if the cooldown is zero or no
\* contact record has been reported.
C11_BumpOnlyWhileCooldown ==
    IF contacts = << >> THEN IsNone(car.bump_victim_id)
    ELSE car.bump_victim_id =
            IF contacts[1].cooldown > 0 THEN Some(contacts[1].id) ELSE None

\* A contact with id 5 was reported with as much cooldown left as the ticks
\* of the update that followed; that update's record reports the cooldown at
\* zero, and the id is gone.
C11_Witness ==
    /\ IsUpdate /\ HasContact(last.x) /\ last.ticks_elapsed > 0
    /\ Len(contacts) = 2
    /\ contacts[2] = [id |-> 5, cooldown |-> last.ticks_elapsed]
    /\ contacts[1] = [id |-> 5, cooldown |-> 0]
    /\ IsNone(car.bump_victim_id)

-----------------------------------------------------------------------------
(* C12.  The override record is a sparse patch: a field that is None       *)
(* leaves the car's field at the value the update computed from the        *)
(* sample, a field that is present becomes the car's field.                *)

\* C12: after an update, each of wheels_with_contact, handbrake,
\* ball_touches, is_autoflipping, autoflip_timer and autoflip_direction is
\* the override's value if the override record carries the field, and else
\* the value the same update leaves without any override record.
C12_SparsePatch ==
    [][ IsUpdate' =>
          LET computed == Update(car, last'.p, last'.game_tick, None)
          IN  \A k \in PatchFields :
                 car'[k] = IF IsNone(last'.x) \/ IsNone(Get(last'.x)[k])
                           THEN computed[k]
                           ELSE Get(Get(last'.x)[k])
      ]_vars

\* A record that carries handbrake and not is_autoflipping: the handbrake is
\* the record's, the autoflip flag is the one an earlier record set.
C12_Witness ==
    /\ IsUpdate /\ ~IsNone(last.x)
    /\ ~IsNone(Get(last.x).handbrake) /\ IsNone(Get(last.x).is_autoflipping)
    /\ car.handbrake = HandbrakeOne \div 2
    /\ car.is_autoflipping

-----------------------------------------------------------------------------
(* C13.  on_ground is true iff at least 3 of the 4 wheel-contact flags are *)
(* true, a wheels_with_contact override included; assigning on_ground sets *)
(* all four flags to the assigned value.                                   *)

\* C13: in every reachable state on_ground holds iff all the wheels but at
\* most one have contact; after car.on_ground = value the four flags are
\* value; after a creation or an update without wheels_with_contact override
\* the four flags are equal; after an update with one they are the
\* override's.
C13_OnGroundIffThreeWheels ==
    /\ OnGround(car) <=>
          \E i \in 1..4 : \A j \in (1..4) \ {i} : car.wheels_with_contact[j]
    /\ \A value \in BOOLEAN :
          last.op = SetterOp(value) =>
             car.wheels_with_contact = <<value, value, value, value>>
    /\ (last.op = "create" \/ (IsUpdate /\ ~WheelsOverridden)) =>
          \E value \in BOOLEAN :
             car.wheels_with_contact = <<value, value, value, value>>
    /\ (IsUpdate /\ WheelsOverridden) =>
          car.wheels_with_contact = Get(Get(last.x).wheels_with_contact)

\* An override with three wheels in contact: the car is on the ground.
C13_Witness ==
    /\ IsUpdate /\ WheelsOverridden
    /\ car.wheels_with_contact = <<TRUE, TRUE, TRUE, FALSE>>
    /\ OnGround(car)

-----------------------------------------------------------------------------
(* C14.  Once has_flipped is true after an update, it stays true after     *)
(* every later update until one whose sample reports OnGround.             *)

-----------------------------------------------------------------------------
(* C15.  After every update inverted_physics returns the inversion of the  *)
(* physics that update wrote; the cache is written only by the car's       *)
(* update and by the lazy getter.                                          *)

\* C15: after every step the car's physics is the last sample's after an
\* update, inverted_physics returns that view with both coordinates negated,
\* and the cache differs from the one before only after an update or a call
\* of the getter.
C15_InvertedPhysicsFresh ==
    [][ /\ IsUpdate' => car'.physics = last'.p.physics
        /\ InvertedPhysics(car') = <<-car'.physics[1], -car'.physics[2]>>
        /\ car'.inverted_physics # car.inverted_physics =>
              last'.op \in {"update", "inverted_physics"}
      ]_vars

\* An update has left the view <<1, 2>> and the cache holds its inversion.
C15_Witness ==
    /\ IsUpdate /\ car.physics = <<1, 2>>
    /\ car.inverted_physics = Some(<<-1, -2>>)

-----------------------------------------------------------------------------
(* C17.  One update with no override: OnGround leaves on_ground true,      *)
(* is_jumping false and air_time_since_jump 0; InAir, Dodging and          *)
(* DoubleJumping leave on_ground false and is_jumping false; Jumping       *)
(* leaves is_jumping true; _prev_air_state is the sample's tag.            *)

\* C17: after an update without override record, the car's on_ground,
\* is_jumping and air_time_since_jump are as the sample's tag sets them and
\* _prev_air_state is the tag's number.
C17_AirStateMapping ==
    (IsUpdate /\ IsNone(last.x)) =>
        /\ last.p.air_state = "OnGround" =>
              (OnGround(car) /\ ~car.is_jumping /\ car.air_time_since_jump = 0)
        /\ last.p.air_state \in {"InAir", "Dodging", "DoubleJumping"} =>
              (~OnGround(car) /\ ~car.is_jumping)
        /\ last.p.air_state = "Jumping" => car.is_jumping
        /\ car.prev_air_state = AirStateInt(last.p.air_state)

\* A Dodging sample: off the ground, not jumping, the tag recorded.
C17_Witness ==
    /\ IsUpdate /\ IsNone(last.x) /\ last.p.air_state = "Dodging"
    /\ ~OnGround(car) /\ ~car.is_jumping
    /\ car.prev_air_state = AirStateInt("Dodging")

-----------------------------------------------------------------------------
(* C18.  create_compat_car records the first packet's frame number and     *)
(* elapsed seconds; after any updates _cur_tick is the last tick index and *)
(* the clock is the baseline plus TICK_TIME times the ticks since.         *)

\* C18: the created car holds the first packet's frame number and elapsed
\* time; after an update _cur_tick is the update's game_tick; and in every
\* reachable state the clock is the first packet's elapsed time plus the
\* ticks between the first frame and _cur_tick.
C18_ClockFollowsTick ==
    /\ last.op = "create" =>
          (car.cur_tick = InitFrame /\ car.game_seconds = InitSeconds)
    /\ IsUpdate => car.cur_tick = last.game_tick
    /\ car.game_seconds = InitSeconds + (car.cur_tick - InitFrame)

\* Three ticks after the first frame, the last of them by a two-tick step.
C18_Witness ==
    /\ IsUpdate /\ last.ticks_elapsed = 2
    /\ car.cur_tick = InitFrame + 3
    /\ car.game_seconds = InitSeconds + 3

-----------------------------------------------------------------------------
(* C19.  With strictly increasing tick indices supersonic_time,            *)
(* boost_active_time, jump_time and handbrake are never negative.          *)

\* C19: in every reachable state of a run whose packets come in increasing
\* tick order, supersonic_time, boost_active_time, jump_time and handbrake
\* are at least 0.
C19_TimersNonNegative ==
    /\ car.supersonic_time >= 0
    /\ car.boost_active_time >= 0
    /\ car.jump_time >= 0
    /\ car.handbrake >= 0

\* A jump timer that has run.
C19_Witness == IsUpdate /\ car.has_jumped /\ car.jump_time > 1

-----------------------------------------------------------------------------
(* C16.  Updates of different cars are independent: A's update then B's    *)
(* gives the same pair of cars as B's then A's, and an update of one car   *)
(* changes no field of the other.                                          *)

\* The cars of a store as their fields read.
CarsOf(S) == [i \in 1 .. NumCars |-> Load(S, i)]

\* C16: in every reachable state, any update of one car leaves every field
\* of every other car as it was, the array and the physics object it refers
\* to included; and any update of one car followed by any update of another
\* leaves the cars that the same two updates leave in the other order.
C16_CarsIndependent ==
    /\ \A i \in 1 .. NumCars : \A a \in FleetInputs(Store, i) :
          \A j \in (1 .. NumCars) \ {i} :
             Load(UpdateIn(Store, i, a[1], a[2]), j) = Load(Store, j)
    /\ \A i \in 1 .. NumCars, j \in 1 .. NumCars :
          i < j =>
             \A a \in FleetInputs(Store, i), b \in FleetInputs(Store, j) :
                CarsOf(UpdateIn(UpdateIn(Store, i, a[1], a[2]), j, b[1], b[2]))
                   = CarsOf(UpdateIn(UpdateIn(Store, j, b[1], b[2]), i, a[1], a[2]))

\* The second car updated with a dodge direction and a view the first car's
\* sample did not carry: the first car's torque and physics are its own.
C16_Witness ==
    /\ cars_last = [op |-> "update", id |-> 2]
    /\ Load(Store, 2).flip_torque = <<0, 1, 0>>
    /\ Load(Store, 2).physics = <<1, 2>>
    /\ Load(Store, 1).flip_torque = <<0, 0, 0>>
    /\ Load(Store, 1).physics = <<0, 0>>
    /\ Load(Store, 1).cur_tick > InitFrame

-----------------------------------------------------------------------------
(* C20.  In V1GameState the ball_touched flag passed for a player after an *)
(* update is true iff the player's latest touch is fewer than tick_skip    *)
(* ticks older than the packet, and false again once it is tick_skip or    *)
(* more ticks old.                                                         *)

\* C20: after an update, the flag passed for each player holds iff the
\* packet reports a latest touch of the player that is fewer than tick_skip
\* ticks older than the packet's elapsed game time.
C20_BallTouchedWithinTickSkip ==
    v1_packet.op = "update" =>
       \A q \in V1Players :
          v1.ball_touched[q] <=>
             /\ v1_packet.touch[q] # NoTouch
             /\ 2 * v1_packet.seconds - v1_packet.touch[q] < 2 * v1.tick_skip

-----------------------------------------------------------------------------
(* C21.  In the legacy GameState._decode_player, has_jump reported for a   *)
(* player is true iff has_jumped[index] is false (reset on OnGround, set   *)
(* on Jumping).                                                            *)

\* C21: after _decode_player the PlayerData's has_jump holds iff the
\* player's has_jumped entry is false.
C21_HasJumpIffNotJumped ==
    legacy_last.op = "decode_player" =>
       (legacy_last.player_data.has_jump
           <=> ~legacy.has_jumped[legacy_last.index + 1])

-----------------------------------------------------------------------------
(* C22.  _recalculate_fields gives every car a distinct spectator id: the  *)
(* blue cars 1, 2, ... in iteration order, the orange cars consecutive ids *)
(* from max(5, number of blue cars + 1).                                   *)

BlueBefore(k) == Cardinality({j \in 1 .. k - 1 : roster[j] = BLUE_TEAM})
OrangeBefore(k) == Cardinality({j \in 1 .. k - 1 : roster[j] = ORANGE_TEAM})

\* C22: blue cars are numbered 1, 2, ... in order, orange cars consecutively
\* from max(5, blue cars + 1); no two cars share an id and every orange id is
\* greater than every blue id.
C22_SpectatorIdsDistinct ==
    LET n == Len(roster)
        blues == BlueBefore(n + 1)
    IN  /\ Len(spectator_ids) = n
        /\ \A k \in 1 .. n :
              spectator_ids[k] =
                 IF roster[k] = BLUE_TEAM
                 THEN 1 + BlueBefore(k)
                 ELSE Max(5, blues + 1) + OrangeBefore(k)
        /\ \A j, k \in 1 .. n :
              j # k => spectator_ids[j] # spectator_ids[k]
        /\ \A j, k \in 1 .. n :
              (roster[j] = BLUE_TEAM /\ roster[k] = ORANGE_TEAM)
                 => spectator_ids[k] > spectator_ids[j]

\* five blue cars and an orange one: the orange id is past the blue ones
C22_Witness ==
    /\ BlueBefore(Len(roster) + 1) >= 5
    /\ \E k \in 1 .. Len(roster) :
          roster[k] = ORANGE_TEAM /\ spectator_ids[k] = 6

-----------------------------------------------------------------------------
(* C23.  After V1GameState.update, last_touch is -1 iff no player of the   *)
(* packet has a latest touch, and else the lowest index among the players  *)
(* whose latest touch is the latest of all.                                *)

\* C23: last_touch is -1 iff no player has a latest touch, else the lowest
\* packet index whose timestamp is the maximum over all players.
C23_LastTouchIsLatest ==
    v1_packet.op = "update" =>
       /\ (v1.last_touch = -1
              <=> \A q \in V1Players : v1_packet.touch[q] = NoTouch)
       /\ v1.last_touch # -1 =>
             /\ v1.last_touch \in V1Players
             /\ v1_packet.touch[v1.last_touch] # NoTouch
             /\ \A q \in V1Players :
                   /\ v1_packet.touch[q] # NoTouch =>
                         v1_packet.touch[q] <= v1_packet.touch[v1.last_touch]
                   /\ (q < v1.last_touch /\ v1_packet.touch[q] # NoTouch) =>
                         v1_packet.touch[q] < v1_packet.touch[v1.last_touch]

\* both players touched at the same time: the first one is reported
C23_Witness ==
    /\ v1_packet.op = "update"
    /\ v1_packet.touch[0] # NoTouch
    /\ v1_packet.touch[1] = v1_packet.touch[0]
    /\ v1.last_touch = 0

-----------------------------------------------------------------------------
(* C24.  detect_hitbox is a pure first-match classifier.                   *)

Matched == {k \in DOMAIN HitboxReferences :
              CompareHitboxShape(hitbox.shape, HitboxReferences[k])}

\* C24: detect_hitbox returns the category of the earliest-listed reference
\* shape the box matches, OCTANE when it matches none, and leaves the car's
\* state as it was.
C24_FirstMatch ==
    hitbox_type # "UNSET" =>
       /\ IF Matched = {}
          THEN hitbox_type = "OCTANE"
          ELSE \E k \in Matched :
                  /\ \A j \in Matched : k <= j
                  /\ hitbox_type = HitboxReferences[k].category
       /\ IdleCar

\* a box within tolerance of both Dominus and Plank is a Dominus
C24_Witness ==
    /\ hitbox_type = "DOMINUS"
    /\ {2, 3} \subseteq Matched

=============================================================================
